---------------------------- MODULE Spec2Model ----------------------------
(***************************************************************************)
(* Model of the Blend parser-combinator library and of the JSON grammar    *)
(* built from it.                                                          *)
(*                                                                         *)
(* A text slice (&str) is a record [ptr, txt]: the address of its first    *)
(* byte and its characters.  A character is a one-character string, except *)
(* the characters of WideChars, which stand for characters whose UTF-8     *)
(* encoding has two bytes.  Offsets and lengths are counted in bytes, as   *)
(* str::len and the slicing operator count them.                           *)
(*                                                                         *)
(* A parse result is a record with a field kind:                           *)
(*   "Ok"    -> fields rem (the remainder) and out (the output)            *)
(*   "Err"   -> field err                                                  *)
(*   "Panic" -> the call panicked (the panic unwinds through every caller) *)
(*   "Hang"  -> the call never returns                                     *)
(***************************************************************************)
EXTENDS Integers, Sequences, FiniteSets, TLC

VARIABLES
    buffer,  \* the value handed to the parser under test
    table_a, \* first sub-parser handed to a combinator (a table: input -> result)
    table_b, \* second sub-parser handed to a combinator
    table_c, \* third sub-parser handed to a combinator
    predicate, \* predicate handed to parse_if (a table: input -> BOOLEAN)
    subject, \* the value whose source range is asked for
    build,   \* the build profile: "debug" checks integer overflow, "release" wraps
    op,      \* the operation that ran ("idle" before any)
    result   \* what the operation returned

vars == <<buffer, table_a, table_b, table_c, predicate, subject, build, op, result>>

-----------------------------------------------------------------------------
(* Results *)

Ok(rem, out) == [kind |-> "Ok", rem |-> rem, out |-> out]

Err(e) == [kind |-> "Err", err |-> e]

Panic == [kind |-> "Panic"]

Hang == [kind |-> "Hang"]

Some(x) == <<x>>

None == <<>>

-----------------------------------------------------------------------------
(* Text *)

\* Characters encoded on two bytes in UTF-8 (U+00E9, e with acute accent).
WideChars == {"U+00E9"}

utf8_len(c) == IF c \in WideChars THEN 2 ELSE 1

\* The number of bytes of txt: one for each character and one more for each
\* two-byte character.
byte_len(txt) ==
    Len(txt) + Cardinality({i \in 1..Len(txt) : utf8_len(txt[i]) = 2})

\* str::len
len(s) == byte_len(s.txt)

\* The number of characters that lie before byte offset n, or -1 when n is
\* not a character boundary of txt (or lies past its end).
char_index(txt, n) ==
    LET ks == {k \in 0..Len(txt) : byte_len(SubSeq(txt, 1, k)) = n}
    IN  IF ks = {} THEN -1 ELSE CHOOSE k \in ks : TRUE

is_char_boundary(s, n) == char_index(s.txt, n) # -1

\* &s[a..b]: panics unless a <= b <= len and both are character boundaries.
slice_panics(s, a, b) ==
    a > b \/ ~is_char_boundary(s, a) \/ ~is_char_boundary(s, b)

slice(s, a, b) ==
    [ptr |-> s.ptr + a,
     txt |-> SubSeq(s.txt, char_index(s.txt, a) + 1, char_index(s.txt, b))]

\* &s[a..]
slice_from(s, a) == slice(s, a, len(s))

UpperCase ==
    [c \in {"A", "B", "C", "D", "E", "F", "G", "H", "I", "J", "K", "L", "M",
            "N", "O", "P", "Q", "R", "S", "T", "U", "V", "W", "X", "Y", "Z"} |->
        CASE c = "A" -> "a" [] c = "B" -> "b" [] c = "C" -> "c" [] c = "D" -> "d"
          [] c = "E" -> "e" [] c = "F" -> "f" [] c = "G" -> "g" [] c = "H" -> "h"
          [] c = "I" -> "i" [] c = "J" -> "j" [] c = "K" -> "k" [] c = "L" -> "l"
          [] c = "M" -> "m" [] c = "N" -> "n" [] c = "O" -> "o" [] c = "P" -> "p"
          [] c = "Q" -> "q" [] c = "R" -> "r" [] c = "S" -> "s" [] c = "T" -> "t"
          [] c = "U" -> "u" [] c = "V" -> "v" [] c = "W" -> "w" [] c = "X" -> "x"
          [] c = "Y" -> "y" [] c = "Z" -> "z"]

\* str::to_lowercase, character by character
to_lowercase(txt) ==
    [i \in 1..Len(txt) |->
        IF txt[i] \in DOMAIN UpperCase THEN UpperCase[txt[i]] ELSE txt[i]]

-----------------------------------------------------------------------------
(* Regular expressions (src/regexes.rs).  Every pattern starts with \A, so *)
(* a match starts at offset 0; find gives the number of characters of the  *)
(* match, or -1 when there is none.                                        *)

\* \s, of the characters the inputs are made of
Space == {" ", "\t", "\n", "\r"}

\* \d
Digit == {"0", "1", "2", "3", "4", "5", "6", "7", "8", "9"}

\* The number of consecutive characters of txt, from position i on, that
\* are of the class.
run(class, txt, i) ==
    LET stops == {j \in i..Len(txt) : txt[j] \notin class}
        stop  == IF stops = {} THEN Len(txt) + 1
                 ELSE CHOOSE j \in stops : \A k \in stops : j <= k
    IN  IF i > Len(txt) THEN 0 ELSE stop - i

at(txt, i) == IF i <= Len(txt) THEN txt[i] ELSE ""

\* \A\s+
WHITESPACE_REGEX(txt) ==
    LET n == run(Space, txt, 1) IN IF n >= 1 THEN n ELSE -1

\* \A-?(?:0|[1-9]\d*)(?:\.\d+)?(?:[eE][+-]?\d+)?
JSON_NUMBER_REGEX(txt) ==
    LET sign == IF at(txt, 1) = "-" THEN 1 ELSE 0
        int  == IF at(txt, sign + 1) = "0" THEN 1
                ELSE IF at(txt, sign + 1) \in Digit
                     THEN 1 + run(Digit, txt, sign + 2)
                     ELSE -1
        i1   == sign + int
        fd   == run(Digit, txt, i1 + 2)
        i2   == IF at(txt, i1 + 1) = "." /\ fd >= 1 THEN i1 + 1 + fd ELSE i1
        es   == IF at(txt, i2 + 2) \in {"+", "-"} THEN 1 ELSE 0
        ed   == run(Digit, txt, i2 + 2 + es)
        i3   == IF at(txt, i2 + 1) \in {"e", "E"} /\ ed >= 1
                THEN i2 + 1 + es + ed ELSE i2
    IN  IF int = -1 THEN -1 ELSE i3

-----------------------------------------------------------------------------
(* JSON AST (src/json/ast.rs): a node is a record [tag, elem]; elem is a   *)
(* text slice for a terminal, a sequence of nodes for an Array, a sequence *)
(* of <<key, value>> pairs for an Object.                                  *)

Json(tag, elem) == [tag |-> tag, elem |-> elem]

-----------------------------------------------------------------------------
(* Parsers (src/parsers/mod.rs, src/parsers/base_parsers.rs).              *)
(*                                                                         *)
(* A parser is a value: a record whose field op names the function that    *)
(* made it, with the arguments that function captured.  A combinator such  *)
(* as or(pa, pb) builds the value; parse(p, input) runs it, and the body   *)
(* of the closure that the combinator returns is the operator or_parse.    *)
(* A function used as a parser (whitespace, string_content, object, ...)   *)
(* is the value function(name).                                            *)

function(name) == [op |-> "function", name |-> name]

\* a parser given by the table of its results, for the parsers that a
\* caller of the library hands to a combinator
table(tab) == [op |-> "table", tab |-> tab]

matching(expected) == [op |-> "matching", expected |-> expected]

literal(expected) == [op |-> "literal", expected |-> expected]

fail(error) == [op |-> "fail", error |-> error]

map(pa, map_fn) == [op |-> "map", pa |-> pa, map_fn |-> map_fn]

and(pa, pb) == [op |-> "and", pa |-> pa, pb |-> pb]

or(pa, pb) == [op |-> "or", pa |-> pa, pb |-> pb]

right(pa, pb) == map(and(pa, pb), "second")

left(pa, pb) == map(and(pa, pb), "first")

middle(pa, pb, pc) ==
    LET p == map(and(pa, pb), "second")
    IN  map(and(p, pc), "first")

while_(parser) == [op |-> "while_", parser |-> parser]

one_or_more(parser) == [op |-> "one_or_more", parser |-> parser]

maybe(parser) == [op |-> "maybe", parser |-> parser]

parse_if(parser, pred) == [op |-> "parse_if", parser |-> parser, pred |-> pred]

parse_if_or_err(parser, error, pred) ==
    [op |-> "parse_if_or_err", parser |-> parser, error |-> error,
     pred |-> pred]

\* The closures handed to map: the two projections of a pair, and the
\* constructors of the AST's nodes.
apply(map_fn, out) ==
    CASE map_fn = "first"  -> out[1]
      [] map_fn = "second" -> out[2]
      [] OTHER             -> Json(map_fn, out)

RECURSIVE parse(_, _)

\* Regex::find on the named pattern
find(expected, txt) ==
    CASE expected = "WHITESPACE_REGEX"  -> WHITESPACE_REGEX(txt)
      [] expected = "JSON_NUMBER_REGEX" -> JSON_NUMBER_REGEX(txt)

matching_parse(expected, input) ==
    LET n == find(expected, input.txt)
        e == byte_len(SubSeq(input.txt, 1, n))
    IN  IF n = -1 THEN Err(<<"Could not parse", expected>>)
        ELSE Ok(slice_from(input, e), slice(input, 0, e))

\* literal, were it to return the expected word for the matched text
literal_returning_expected(expected, input) ==
    IF len(input) < byte_len(expected)
    THEN Err(<<"Could not parse", expected>>)
    ELSE IF slice_panics(input, 0, byte_len(expected)) THEN Panic
    ELSE IF to_lowercase(slice(input, 0, byte_len(expected)).txt)
                = to_lowercase(expected)
         THEN Ok(slice_from(input, byte_len(expected)),
                 [ptr |-> input.ptr, txt |-> expected])
         ELSE Err(<<"Could not parse", expected>>)

literal_parse(expected, input) ==
    IF len(input) < byte_len(expected)
    THEN Err(<<"Could not parse", expected>>)
    ELSE IF slice_panics(input, 0, byte_len(expected)) THEN Panic
    ELSE IF to_lowercase(slice(input, 0, byte_len(expected)).txt)
                = to_lowercase(expected)
         THEN Ok(slice_from(input, byte_len(expected)),
                 slice(input, 0, byte_len(expected)))
         ELSE Err(<<"Could not parse", expected>>)

whitespace(input) == parse(matching("WHITESPACE_REGEX"), input)

nothing(input) == Ok(input, "()")

fail_parse(error, input) == Err(error)

map_parse(pa, map_fn, input) ==
    LET r == parse(pa, input)
    IN  IF r.kind = "Ok" THEN Ok(r.rem, apply(map_fn, r.out)) ELSE r

\* and, were it to run the second parser on the input of the first
and_on_same_input(pa, pb, input) ==
    LET ra == parse(pa, input)
    IN  IF ra.kind # "Ok" THEN ra
        ELSE LET rb == parse(pb, input)
             IN  IF rb.kind # "Ok" THEN rb
                 ELSE Ok(rb.rem, <<ra.out, rb.out>>)

and_parse(pa, pb, input) ==
    LET ra == parse(pa, input)
    IN  IF ra.kind # "Ok" THEN ra
        ELSE LET rb == parse(pb, ra.rem)
             IN  IF rb.kind # "Ok" THEN rb
                 ELSE Ok(rb.rem, <<ra.out, rb.out>>)

\* or, were it to keep the first alternative's error when both fail
or_keeping_first_error(pa, pb, input) ==
    LET ra == parse(pa, input)
    IN  IF ra.kind # "Err" THEN ra
        ELSE LET rb == parse(pb, input)
             IN  IF rb.kind = "Err" THEN ra ELSE rb

or_parse(pa, pb, input) ==
    LET ra == parse(pa, input)
    IN  IF ra.kind = "Err" THEN parse(pb, input) ELSE ra

\* The loop of while_ and of one_or_more.  seen holds the remainders the loop
\* has started an iteration from: a parser is a pure function, so an
\* iteration that ends where an earlier one started repeats for ever.
RECURSIVE repeat(_, _, _, _)
repeat(parser, rem, res, seen) ==
    LET r == parse(parser, rem)
    IN  CASE r.kind = "Ok" ->
               IF r.rem \in seen THEN Hang
               ELSE repeat(parser, r.rem, Append(res, r.out),
                           seen \cup {r.rem})
          [] r.kind = "Err" -> Ok(rem, res)
          [] OTHER -> r

\* while_, were it to fail when the first application fails
while_requiring_one(parser, input) ==
    LET r == parse(parser, input)
    IN  IF r.kind = "Err" THEN r ELSE repeat(parser, input, <<>>, {input})

while_parse(parser, input) == repeat(parser, input, <<>>, {input})

\* one_or_more, were it to accept no application at all
one_or_more_allowing_none(parser, input) ==
    repeat(parser, input, <<>>, {input})

one_or_more_parse(parser, input) ==
    LET r == parse(parser, input)
    IN  IF r.kind # "Ok" THEN r
        ELSE IF r.rem = input THEN Hang
        ELSE repeat(parser, r.rem, <<r.out>>, {input, r.rem})

\* maybe, were it to hand on the error of its parser
maybe_propagating(parser, input) ==
    LET r == parse(parser, input)
    IN  IF r.kind = "Ok" THEN Ok(r.rem, Some(r.out)) ELSE r

maybe_parse(parser, input) ==
    LET r == parse(parser, input)
    IN  CASE r.kind = "Ok" -> Ok(r.rem, Some(r.out))
          [] r.kind = "Err" -> Ok(input, None)
          [] OTHER -> r

parse_if_parse(parser, pred, input) ==
    IF pred[input]
    THEN LET r == parse(parser, input)
         IN  IF r.kind = "Ok" THEN Ok(r.rem, Some(r.out)) ELSE r
    ELSE Ok(input, None)

parse_if_or_err_parse(parser, error, pred, input) ==
    IF pred[input] THEN parse(parser, input) ELSE Err(error)

-----------------------------------------------------------------------------
(* JSON grammar (src/json/parser.rs) *)

number_raw(input) == parse(matching("JSON_NUMBER_REGEX"), input)

\* The scanning loop of string_content: idx after the loop, or -1 when an
\* escape character is the last character.
RECURSIVE scan(_, _)
scan(chars, idx) ==
    IF chars = <<>> THEN idx
    ELSE IF Head(chars) = "\\"
         THEN IF Len(chars) < 2 THEN -1
              ELSE scan(Tail(Tail(chars)), idx + 2)
    ELSE IF Head(chars) = "\"" THEN idx
    ELSE scan(Tail(chars), idx + 1)

string_content(input) ==
    LET idx == scan(input.txt, 0)
    IN  IF idx = -1 THEN Err(<<"Unexpected end of stream here">>)
        ELSE IF len(input) < idx
             THEN Err(<<"Derivation would exceed end of string">>)
        ELSE IF slice_panics(input, idx, len(input))
                  \/ slice_panics(input, 0, idx)
             THEN Panic
        ELSE Ok(slice_from(input, idx), slice(input, 0, idx))

string ==
    map(middle(literal(<<"\"">>), function("string_content"),
               literal(<<"\"">>)),
        "String")

number == map(function("number_raw"), "Number")

true_ == map(literal(<<"t", "r", "u", "e">>), "True")

false_ == map(literal(<<"f", "a", "l", "s", "e">>), "False")

null_ == map(literal(<<"n", "u", "l", "l">>), "Null")

terminal_value ==
    LET parser1 == or(string, number)
        parser2 == or(parser1, true_)
        parser3 == or(parser2, false_)
        parser4 == or(parser3, null_)
    IN  left(parser4, maybe(function("whitespace")))

(* object and array call each other through value, as deep as the input    *)
(* nests.  The parsers are pure, so a result can be computed once and kept: *)
(* known is a set of records [ptr, object, array] holding the results of    *)
(* object and of array on the slices that start at ptr.  The parser         *)
(* object_in(known) is the function object: it takes a result from known    *)
(* when it is there, and computes it when it is not.                        *)

object_in(known) == [op |-> "object", known |-> known]

array_in(known) == [op |-> "array", known |-> known]

value(known) ==
    LET parser == or(object_in(known), array_in(known))
    IN  or(parser, terminal_value)

key_value_pair(known) ==
    LET key1 == left(string, maybe(function("whitespace")))
        key2 == left(key1, literal(<<":">>))
        key  == left(key2, maybe(function("whitespace")))
    IN  and(key, value(known))

object(known, input) ==
    LET middle_pair1 == left(key_value_pair(known), literal(<<",">>))
        middle_pair  == left(middle_pair1, maybe(function("whitespace")))
        content1     == while_(or(middle_pair, key_value_pair(known)))
        content      == right(maybe(function("whitespace")), content1)
        parser1      == middle(literal(<<"{">>), content, literal(<<"}">>))
        parser       == left(parser1, maybe(function("whitespace")))
    IN  parse(map(parser, "Object"), input)

\* array, were a value of it optional
array_of_optional_values(known, input) ==
    LET last_value1   == right(maybe(function("whitespace")), value(known))
        last_value    == left(last_value1, maybe(function("whitespace")))
        middle_value1 == right(maybe(function("whitespace")), value(known))
        middle_value2 == left(middle_value1, literal(<<",">>))
        middle_value  == left(middle_value2, maybe(function("whitespace")))
        array_value   == or(middle_value, maybe(last_value))
        array_content == while_(array_value)
        parser1       == middle(literal(<<"[">>), array_content,
                                literal(<<"]">>))
        parser        == left(parser1, maybe(function("whitespace")))
    IN  parse(map(parser, "Array"), input)

array(known, input) ==
    LET last_value1   == right(maybe(function("whitespace")), value(known))
        last_value    == left(last_value1, maybe(function("whitespace")))
        middle_value1 == right(maybe(function("whitespace")), value(known))
        middle_value2 == left(middle_value1, literal(<<",">>))
        middle_value  == left(middle_value2, maybe(function("whitespace")))
        array_value   == or(middle_value, last_value)
        array_content == while_(array_value)
        parser1       == middle(literal(<<"[">>), array_content,
                                literal(<<"]">>))
        parser        == left(parser1, maybe(function("whitespace")))
    IN  parse(map(parser, "Array"), input)

has(known, input) == \E e \in known : e.ptr = input.ptr

the(known, input) == CHOOSE e \in known : e.ptr = input.ptr

known_object(known, input) ==
    IF has(known, input) THEN the(known, input).object
    ELSE object(known, input)

known_array(known, input) ==
    IF has(known, input) THEN the(known, input).array
    ELSE array(known, input)

\* a function called as a parser: the impl of Parser for Fn(I) -> Result
call(name, input) ==
    CASE name = "whitespace"     -> whitespace(input)
      [] name = "string_content" -> string_content(input)
      [] name = "number_raw"     -> number_raw(input)
      [] name = "nothing"        -> nothing(input)

\* Parser::parse, for each kind of parser
parse(p, input) ==
    CASE p.op = "map"     -> map_parse(p.pa, p.map_fn, input)
      [] p.op = "and"     -> and_parse(p.pa, p.pb, input)
      [] p.op = "or"      -> or_parse(p.pa, p.pb, input)
      [] p.op = "literal" -> literal_parse(p.expected, input)
      [] p.op = "maybe"   -> maybe_parse(p.parser, input)
      [] p.op = "while_"  -> while_parse(p.parser, input)
      [] p.op = "object"  -> known_object(p.known, input)
      [] p.op = "array"   -> known_array(p.known, input)
      [] p.op = "function" -> call(p.name, input)
      [] p.op = "matching" -> matching_parse(p.expected, input)
      [] p.op = "table"    -> p.tab[input]
      [] p.op = "one_or_more" -> one_or_more_parse(p.parser, input)
      [] p.op = "parse_if" -> parse_if_parse(p.parser, p.pred, input)
      [] p.op = "parse_if_or_err" ->
            parse_if_or_err_parse(p.parser, p.error, p.pred, input)
      [] p.op = "fail"     -> fail_parse(p.error, input)

\* The character positions of source, last first, at which an object or an
\* array may start.
RECURSIVE opens(_, _)
opens(txt, k) ==
    IF k > Len(txt) THEN <<>>
    ELSE IF txt[k] \in {"{", "["} THEN opens(txt, k + 1) \o <<k>>
    ELSE opens(txt, k + 1)

\* The results of object and array on the slices of source that start at the
\* first n positions of starts: a slice's results are computed from those of
\* the slices inside it.
RECURSIVE results(_, _, _)
results(source, starts, n) ==
    IF n = 0 THEN {}
    ELSE LET known == results(source, starts, n - 1)
             s     == slice_from(source,
                                 byte_len(SubSeq(source.txt, 1, starts[n] - 1)))
         IN  known \cup {[ptr    |-> s.ptr,
                          object |-> object(known, s),
                          array  |-> array(known, s)]}

nested(source) ==
    LET starts == opens(source.txt, 1)
    IN  results(source, starts, Len(starts))

\* or(object, array).parse(source): the call json makes, remainder included
top_level(source) ==
    LET known == nested(source)
    IN  parse(or(object_in(known), array_in(known)), source)

\* Result::map with the closure |(_, json)| json: the remainder is dropped and
\* the node kept
without_remainder(r) ==
    IF r.kind = "Ok" THEN [kind |-> "Ok", out |-> r.out] ELSE r

json(source) == without_remainder(top_level(source))

-----------------------------------------------------------------------------
(* Source ranges (src/parsers/source_range.rs, src/json/ast.rs).           *)
(*                                                                         *)
(* A call gives Returned(v), v an Option of a range, or Panic.  Addresses  *)
(* are usize: an unsigned word of UsizeBits bits.  An addition or a        *)
(* subtraction that leaves the word panics in a build that checks          *)
(* overflow ("debug") and wraps in one that does not ("release").          *)

Returned(v) == [kind |-> "Returned", range |-> v]

Range(start, end) == [start |-> start, end |-> end]

\* The width of usize in the model
UsizeBits == 12

wrapping(n) == n % (2 ^ UsizeBits)

overflows(n) == n < 0 \/ n >= 2 ^ UsizeBits

\* source_range of a slice, were its end the length of the slice
str_source_range_end_as_length(self, source, profile) ==
    IF self.ptr < source.ptr
          \/ self.ptr + len(self) > source.ptr + len(source)
    THEN Returned(None)
    ELSE Returned(Some(Range(self.ptr - source.ptr, len(self))))

\* impl SourceRange for &str
str_source_range(self, source, profile) ==
    LET start        == wrapping(self.ptr - source.ptr)
        end          == wrapping(start + len(self))
        start_is_oob == self.ptr < source.ptr
        end_is_oob   == self.ptr + len(self) > source.ptr + len(source)
    IN  IF profile = "debug"
           /\ (overflows(self.ptr - source.ptr) \/ overflows(start + len(self)))
        THEN Panic
        ELSE IF start_is_oob \/ end_is_oob THEN Returned(None)
        ELSE Returned(Some(Range(start, end)))

source_range_start(r) ==
    IF r.kind = "Panic" THEN r
    ELSE IF r.range = None THEN Returned(None)
    ELSE Returned(Some(r.range[1].start))

source_range_end(r) ==
    IF r.kind = "Panic" THEN r
    ELSE IF r.range = None THEN Returned(None)
    ELSE Returned(Some(r.range[1].end))

\* (start..end).to_range(), after start and end were computed in that order
to_range(start, end) ==
    IF start.kind = "Panic" THEN start
    ELSE IF end.kind = "Panic" THEN end
    ELSE IF start.range # None /\ end.range # None
         THEN Returned(Some(Range(start.range[1], end.range[1])))
    ELSE Returned(None)

\* impl SourceRange for Json
RECURSIVE json_source_range(_, _, _)
json_source_range(self, source, profile) ==
    CASE self.tag = "Object" ->
            IF self.elem = <<>> THEN Returned(None)
            ELSE to_range(
                   source_range_start(
                     json_source_range(self.elem[1][1], source, profile)),
                   source_range_end(
                     json_source_range(self.elem[Len(self.elem)][1], source,
                                       profile)))
      [] self.tag = "Array" ->
            IF self.elem = <<>> THEN Returned(None)
            ELSE to_range(
                   source_range_start(
                     json_source_range(self.elem[1], source, profile)),
                   source_range_end(
                     json_source_range(self.elem[Len(self.elem)], source,
                                       profile)))
      [] OTHER -> str_source_range(self.elem, source, profile)

-----------------------------------------------------------------------------
(* The inputs of the grammar's parsers *)

\* The pieces the short inputs are made of: every character the grammar
\* tells apart, a two-byte character, and the keywords in both cases.
Fragments ==
    { <<"{">>, <<"}">>, <<"[">>, <<"]">>, <<",">>, <<":">>, <<" ">>,
      <<"\"">>, <<"\\">>, <<"a">>, <<"1">>, <<"U+00E9">>,
      <<"t", "r", "u", "e">>, <<"T", "R", "U", "E">> }

\* The longest short input, in fragments
MaxFrags == 3

RECURSIVE Concats(_)
Concats(n) ==
    IF n = 0 THEN {<<>>}
    ELSE LET shorter == Concats(n - 1)
         IN  shorter \cup {t \o f : t \in shorter, f \in Fragments}

\* The documents of the tests of src/json/parser.rs and of the grammar's
\* description, well formed and not.
Documents ==
    {
      <<"{", "}">>,
      <<"{", " ", "\"", "f", "o", "o", "\"", ":", " ", "\"", "b", "a", "r", "\"", " ", "}">>,
      <<"{", " ", "\"", "f", "o", "o", "\"", ":", " ", "\"", "b", "a", "r", "\"", ",", " ", "\"", "2", "n", "d", "_", "k", "e", "y", "\"", " ", ":", " ", "t", "r", "u", "e", " ", "}">>,
      <<"[", " ", "\"", "b", "a", "r", "\"", " ", "]">>,
      <<"[", "\"", "b", "a", "r", "\"", ",", " ", "\"", "f", "o", "o", "\"", ",", " ", "t", "r", "u", "e", "]">>,
      <<"[", "\"", "b", "a", "r", "\"", ",", " ", "\"", "f", "o", "o", "\"", ",", " ", "t", "r", "u", "e", ",", " ", "{", "\"", "n", "a", "m", "e", "\"", ":", " ", "\"", "b", "o", "b", "\"", "}", "]">>,
      <<"{", " ", "\"", "v", "a", "l", "u", "e", "\"", ":", " ", "[", "\"", "b", "a", "r", "\"", ",", " ", "\"", "f", "o", "o", "\"", ",", " ", "t", "r", "u", "e", ",", " ", "{", "\"", "n", "a", "m", "e", "\"", ":", " ", "\"", "b", "o", "b", "\"", "}", "]", "}">>,
      <<"{", "\"", "a", "\"", ":", " ", "[", "1", ",", " ", "{", "\"", "b", "\"", ":", " ", "n", "u", "l", "l", "}", "]", "}">>,
      <<"{", "\"", "a", "\"", ":", " ", "}">>,
      <<"{", "\"", "a", "\"", ":", "1", ",", "}">>,
      <<"{", "\"", "a", "\"", ":", "1", " ", "\"", "b", "\"", ":", "2", "}">>,
      <<"[", "1", ",", "]">>,
      <<"[", "1", " ", "2", "]">>,
      <<"[", "\"", "a", "\"", " ", "\"", "b", "\"", "]">>,
      <<"[", "T", "R", "U", "E", "]">>,
      <<"[", "F", "a", "l", "s", "e", ",", " ", "n", "U", "l", "l", "]">>,
      <<"[", "\"", "U+00E9", "\"", "]">>,
      <<"{", "\"", "U+00E9", "\"", ":", "1", "}">>
    }

Texts == Concats(MaxFrags) \cup Documents

\* Where the buffer lies in memory
Addresses == {64}

-----------------------------------------------------------------------------
(* The inputs of the combinators: a caller's parser is any table of        *)
(* results over the positions of an input.  At a position a parser         *)
(* succeeds with a remainder and an output, fails with an error, or does   *)
(* not return (it panics).                                                 *)

\* The last position of the input of a repetition
MaxPos == 2

Positions == 0..MaxPos

Outcomes(positions, outs, errs) ==
    {Ok(rem, out) : rem \in positions, out \in outs}
        \cup {Err(e) : e \in errs}
        \cup {Panic}

Parsers == [Positions -> Outcomes(Positions, {"o1", "o2"}, {"e1", "e2"})]

\* The last position of the input of an alternative
MaxPosAlt == 1

PositionsAlt == 0..MaxPosAlt

ParsersA == [PositionsAlt -> Outcomes(PositionsAlt, {"oa"}, {"ea"})]

ParsersB == [PositionsAlt -> Outcomes(PositionsAlt, {"ob"}, {"eb"})]

ParsersC == [PositionsAlt -> Outcomes(PositionsAlt, {"oc"}, {"ec"})]

-----------------------------------------------------------------------------
(* The grammar's parsers, each run on a buffer *)

Init ==
    /\ buffer \in [ptr : Addresses, txt : Texts]
    /\ table_a = <<>>
    /\ table_b = <<>>
    /\ table_c = <<>>
    /\ predicate = <<>>
    /\ subject = <<>>
    /\ build = "debug"
    /\ op = "idle"
    /\ result = <<>>

Run(name, r) ==
    /\ op = "idle"
    /\ op' = name
    /\ result' = r
    /\ UNCHANGED <<buffer, table_a, table_b, table_c, predicate, subject, build>>

RunJson == Run("json", json(buffer))

RunObject == Run("object", parse(object_in(nested(buffer)), buffer))

RunArray == Run("array", parse(array_in(nested(buffer)), buffer))

RunValue == Run("value", parse(value(nested(buffer)), buffer))

\* a repetition of a parser that succeeds without consuming
RunWhileMaybe ==
    Run("while_maybe_whitespace",
        parse(while_(maybe(function("whitespace"))), buffer))

Next ==
    \/ RunJson
    \/ RunObject
    \/ RunArray
    \/ RunValue
    \/ RunWhileMaybe

Spec == Init /\ [][Next]_vars

-----------------------------------------------------------------------------
(* The repetition and option combinators, each run over a caller's parser *)

InitRepeat ==
    /\ buffer \in Positions
    /\ table_a \in Parsers
    /\ table_b = <<>>
    /\ table_c = <<>>
    /\ predicate = <<>>
    /\ subject = <<>>
    /\ build = "debug"
    /\ op = "idle"
    /\ result = <<>>

RunWhile == Run("while_", parse(while_(table(table_a)), buffer))

RunOneOrMore == Run("one_or_more", parse(one_or_more(table(table_a)), buffer))

RunMaybe == Run("maybe", parse(maybe(table(table_a)), buffer))

RunParseIf ==
    \E p \in [Positions -> BOOLEAN] :
        /\ op = "idle"
        /\ op' = "parse_if"
        /\ predicate' = p
        /\ result' = parse(parse_if(table(table_a), p), buffer)
        /\ UNCHANGED <<buffer, table_a, table_b, table_c, subject, build>>

NextRepeat ==
    \/ RunWhile
    \/ RunOneOrMore
    \/ RunMaybe
    \/ RunParseIf

SpecRepeat == InitRepeat /\ [][NextRepeat]_vars

-----------------------------------------------------------------------------
(* The alternative, run over two parsers of a caller *)

InitAlt ==
    /\ buffer \in PositionsAlt
    /\ table_a \in ParsersA
    /\ table_b \in ParsersB
    /\ table_c = <<>>
    /\ predicate = <<>>
    /\ subject = <<>>
    /\ build = "debug"
    /\ op = "idle"
    /\ result = <<>>

RunOr == Run("or", parse(or(table(table_a), table(table_b)), buffer))

NextAlt == RunOr

SpecAlt == InitAlt /\ [][NextAlt]_vars

-----------------------------------------------------------------------------
(* Source ranges, asked of slices and of AST nodes against a buffer.  The  *)
(* slice or the node comes from the buffer itself or from a copy of it at  *)
(* another address.                                                        *)

\* The longest short buffer, in fragments
MaxRangeFrags == 2

\* Where the text that a slice or a node is taken from lies: the buffer's
\* own address, and copies below it, overlapping it and above it
Origins == {40, 60, 64, 66, 200}

copy_at(origin, source) == [ptr |-> origin, txt |-> source.txt]

\* every node of an AST, the keys of objects included
RECURSIVE nodes(_)
nodes(ast) ==
    CASE ast.tag = "Array" ->
            {ast} \cup UNION {nodes(ast.elem[i]) : i \in 1..Len(ast.elem)}
      [] ast.tag = "Object" ->
            {ast} \cup UNION {nodes(ast.elem[i][1]) \cup nodes(ast.elem[i][2]) :
                              i \in 1..Len(ast.elem)}
      [] OTHER -> {ast}

parsed_nodes(r) == IF r.kind = "Ok" THEN nodes(r.out) ELSE {}

\* the slices of source: the characters i + 1 to j of it, where they lie
slices(source) ==
    {[ptr |-> source.ptr + byte_len(SubSeq(source.txt, 1, i)),
      txt |-> SubSeq(source.txt, i + 1, j)] :
        i \in 0..Len(source.txt), j \in 0..Len(source.txt)}

InitRange ==
    /\ buffer \in [ptr : Addresses, txt : Concats(MaxRangeFrags) \cup Documents]
    /\ table_a = <<>>
    /\ table_b = <<>>
    /\ table_c = <<>>
    /\ predicate = <<>>
    /\ subject = <<>>
    /\ build \in {"debug", "release"}
    /\ op = "idle"
    /\ result = <<>>

Ask(name, origin, item, r) ==
    /\ op = "idle"
    /\ op' = name
    /\ subject' = [from |-> origin, item |-> item]
    /\ result' = r
    /\ UNCHANGED <<buffer, table_a, table_b, table_c, predicate, build>>

RangeOfSlice ==
    /\ op = "idle"
    /\ \E origin \in Origins :
          \E self \in slices(copy_at(origin, buffer)) :
              Ask("str_source_range", origin, self,
                  str_source_range(self, buffer, build))

RangeOfNode ==
    /\ op = "idle"
    /\ \E origin \in Origins :
          \E self \in parsed_nodes(json(copy_at(origin, buffer))) :
              Ask("json_source_range", origin, self,
                  json_source_range(self, buffer, build))

NextRange ==
    \/ RangeOfSlice
    \/ RangeOfNode

SpecRange == InitRange /\ [][NextRange]_vars

-----------------------------------------------------------------------------
(* The sequencing combinators, run over the parsers of a caller *)

InitSeq ==
    /\ buffer \in PositionsAlt
    /\ table_a \in ParsersA
    /\ table_b \in ParsersB
    /\ table_c = <<>>
    /\ predicate = <<>>
    /\ subject = <<>>
    /\ build = "debug"
    /\ op = "idle"
    /\ result = <<>>

RunAnd == Run("and", parse(and(table(table_a), table(table_b)), buffer))

RunLeft == Run("left", parse(left(table(table_a), table(table_b)), buffer))

RunRight == Run("right", parse(right(table(table_a), table(table_b)), buffer))

RunMiddle ==
    \E pc \in ParsersC :
        /\ op = "idle"
        /\ op' = "middle"
        /\ table_c' = pc
        /\ result' = parse(middle(table(table_a), table(table_b), table(pc)),
                           buffer)
        /\ UNCHANGED <<buffer, table_a, table_b, predicate, subject, build>>

NextSeq ==
    \/ RunAnd
    \/ RunLeft
    \/ RunRight
    \/ RunMiddle

SpecSeq == InitSeq /\ [][NextSeq]_vars

-----------------------------------------------------------------------------
(* The string terminal on its own: string and string_content on every text *)
(* of up to MaxStringLen characters of a string's alphabet.                *)

\* a quote, the escape character, a one-byte and a two-byte character, a
\* space
StringChars == {"\"", "\\", "a", "U+00E9", " "}

\* The longest text, in characters
MaxStringLen == 5

StringTexts == UNION {[1..n -> StringChars] : n \in 0..MaxStringLen}

InitTerminal ==
    /\ buffer \in [ptr : Addresses, txt : StringTexts]
    /\ table_a = <<>>
    /\ table_b = <<>>
    /\ table_c = <<>>
    /\ predicate = <<>>
    /\ subject = <<>>
    /\ build = "debug"
    /\ op = "idle"
    /\ result = <<>>

RunString == Run("string", parse(string, buffer))

RunStringContent ==
    Run("string_content", parse(function("string_content"), buffer))

NextTerminal ==
    \/ RunString
    \/ RunStringContent

SpecTerminal == InitTerminal /\ [][NextTerminal]_vars

-----------------------------------------------------------------------------
(* Properties of the grammar, under Spec *)

\* what a parser consumed of input, given the remainder it returned
consumed(input, rem) ==
    SubSeq(input.txt, 1, Len(input.txt) - Len(rem.txt))

\* The commas of txt, from character i on, that separate the members of the
\* outermost object or array: those outside every string and inside no
\* nested object or array.
RECURSIVE separators(_, _, _, _)
separators(txt, i, depth, quoted) ==
    IF i > Len(txt) THEN 0
    ELSE IF quoted
         THEN IF txt[i] = "\\" THEN separators(txt, i + 2, depth, TRUE)
              ELSE separators(txt, i + 1, depth, txt[i] # "\"")
    ELSE IF txt[i] = "\"" THEN separators(txt, i + 1, depth, TRUE)
    ELSE IF txt[i] \in {"{", "["} THEN separators(txt, i + 1, depth + 1, FALSE)
    ELSE IF txt[i] \in {"}", "]"} THEN separators(txt, i + 1, depth - 1, FALSE)
    ELSE IF txt[i] = "," /\ depth = 1
         THEN 1 + separators(txt, i + 1, depth, FALSE)
    ELSE separators(txt, i + 1, depth, FALSE)

\* n members are separated by n - 1 commas, and no member by none
separated(n, commas) == IF n = 0 THEN commas = 0 ELSE commas = n - 1

\* the True, False and Null nodes of an AST
RECURSIVE keywords(_)
keywords(node) ==
    CASE node.tag \in {"True", "False", "Null"} -> {node}
      [] node.tag = "Array" ->
            UNION {keywords(node.elem[i]) : i \in 1..Len(node.elem)}
      [] node.tag = "Object" ->
            UNION {keywords(node.elem[i][1]) \cup keywords(node.elem[i][2]) :
                   i \in 1..Len(node.elem)}
      [] OTHER -> {}

keyword_text(tag) ==
    CASE tag = "True"  -> <<"t", "r", "u", "e">>
      [] tag = "False" -> <<"f", "a", "l", "s", "e">>
      [] tag = "Null"  -> <<"n", "u", "l", "l">>

\* C1: json(s) returns Ok only if the parse of the top-level object or array
\* consumed the whole of s: the remainder that parse left is empty.
JsonConsumesWholeInput ==
    (op = "json" /\ result.kind = "Ok") => top_level(buffer).rem.txt = <<>>

\* C2: json and the grammar parsers it uses return Ok or Err on every text,
\* multi-byte characters included: no call panics.
GrammarNeverPanics ==
    op \in {"json", "object", "array", "value"} => result.kind \in {"Ok", "Err"}

\* C3: object succeeds only when consecutive pairs are separated by a comma
\* and the last pair is followed by none: an object of n pairs has n - 1
\* separating commas, and the AST holds one entry per pair.
ObjectPairsCommaSeparated ==
    (op = "object" /\ result.kind = "Ok") =>
        separated(Len(result.out.elem),
                  separators(consumed(buffer, result.rem), 1, 0, FALSE))

\* C4: array succeeds only when consecutive values are separated by a comma
\* and the last value is followed by none: an array of n values has n - 1
\* separating commas, and the AST holds one element per value.
ArrayValuesCommaSeparated ==
    (op = "array" /\ result.kind = "Ok") =>
        separated(Len(result.out.elem),
                  separators(consumed(buffer, result.rem), 1, 0, FALSE))

\* C5: the keyword parsers are case sensitive: every True, False and Null
\* node of a parsed AST holds exactly the text true, false or null.
KeywordsAreLowercase ==
    (op \in {"json", "object", "array", "value"} /\ result.kind = "Ok") =>
        \A node \in keywords(result.out) :
            node.elem.txt = keyword_text(node.tag)

\* C14: json and the parsers of the grammar return on every input: the
\* loops of object and array end, each after at most as many iterations as
\* the input has characters.  A while_ over a parser that can succeed
\* without consuming, such as maybe(whitespace), does not return.
GrammarTerminates ==
    /\ op \in {"json", "object", "array", "value"} =>
          /\ result.kind # "Hang"
          /\ result.kind = "Ok" =>
                \A c \in nodes(result.out) :
                    c.tag \in {"Object", "Array"} =>
                        Len(c.elem) <= Len(buffer.txt)
    /\ op = "while_maybe_whitespace" => result.kind = "Hang"

ArrayLoopRanThrice ==
    /\ op = "array"
    /\ result.kind = "Ok"
    /\ Len(result.out.elem) >= 3

\* the texts that the terminal nodes of an AST hold
spans(ast) ==
    {n.elem : n \in {m \in nodes(ast) : m.tag \notin {"Object", "Array"}}}

\* rem is what is left of input after a prefix of it
is_suffix(rem, input) ==
    /\ rem \in slices(input)
    /\ rem.ptr + len(rem) = input.ptr + len(input)

\* span is a piece of input that ends at or before the byte at address end
in_prefix(span, input, end) ==
    /\ span \in slices(input)
    /\ span.ptr + len(span) <= end

\* C15: when a parser of the grammar succeeds on the buffer, the remainder
\* is a suffix of the buffer, and every text held by the output is a piece
\* of the buffer lying in the consumed prefix, with the buffer's characters
\* in the buffer's order.
ConsumptionLaw ==
    /\ (op \in {"object", "array", "value"} /\ result.kind = "Ok") =>
          /\ is_suffix(result.rem, buffer)
          /\ \A span \in spans(result.out) :
                in_prefix(span, buffer, result.rem.ptr)
    /\ (op = "json" /\ result.kind = "Ok") =>
          \A span \in spans(result.out) :
              in_prefix(span, buffer, buffer.ptr + len(buffer))

UpperCaseKeywordWithRemainder ==
    /\ op = "value"
    /\ result.kind = "Ok"
    /\ result.out.tag = "True"
    /\ result.out.elem.txt = <<"T", "R", "U", "E">>
    /\ result.rem.txt # <<>>

\* txt is open, then whitespace only, then close
empty_composite(txt, open, close) ==
    /\ Len(txt) >= 2
    /\ txt[1] = open
    /\ txt[Len(txt)] = close
    /\ \A i \in 2..(Len(txt) - 1) : txt[i] \in Space

\* C19: json gives the Object without pairs on a '{', whitespace or none,
\* and a '}', and the Array without elements on a '[', whitespace or none,
\* and a ']'.
EmptyCompositesAllowWhitespace ==
    op = "json" =>
        /\ empty_composite(buffer.txt, "{", "}") =>
              /\ result.kind = "Ok"
              /\ result.out = Json("Object", <<>>)
        /\ empty_composite(buffer.txt, "[", "]") =>
              /\ result.kind = "Ok"
              /\ result.out = Json("Array", <<>>)

-----------------------------------------------------------------------------
(* Properties of the repetition and option combinators, under SpecRepeat *)

\* Where the input stands after i successful applications of the parser tab
\* from x on; -1 when one of them does not succeed.
RECURSIVE after(_, _, _)
after(tab, x, i) ==
    IF i = 0 THEN x
    ELSE LET y == after(tab, x, i - 1)
         IN  IF y # -1 /\ tab[y].kind = "Ok" THEN tab[y].rem ELSE -1

\* outs are the outputs of successive successful applications of tab from x
\* on, in order, and next is where the last of them left the input
applications(tab, x, outs, next) ==
    /\ \A i \in 1..Len(outs) :
          /\ after(tab, x, i) # -1
          /\ tab[after(tab, x, i - 1)].out = outs[i]
    /\ after(tab, x, Len(outs)) = next

\* each success of tab consumes input, and tab returns at every position:
\* what a parser handed to a repetition has to do for the loop to end
advances(tab) ==
    \A x \in DOMAIN tab :
        /\ tab[x].kind \in {"Ok", "Err"}
        /\ tab[x].kind = "Ok" => tab[x].rem > x

returned(r) == r.kind \in {"Ok", "Err"}

\* C6: parse_if(p, pred).parse(x) never returns an error: a failure of p is
\* not surfaced as a failure of parse_if.
ParseIfNeverFails ==
    op = "parse_if" => result.kind # "Err"

\* C7: whenever while_(p).parse(x) returns, it returns Ok((r, outs)), never
\* an error: outs are the outputs of the successive successful applications
\* of p, in order, r is the remainder of the last of them (x when there is
\* none), and p fails on r.
WhileCollectsUntilFailure ==
    (op = "while_" /\ returned(result)) =>
        /\ result.kind = "Ok"
        /\ applications(table_a, buffer, result.out, result.rem)
        /\ table_a[result.rem].kind = "Err"

WhileTwoThenFailure ==
    /\ op = "while_"
    /\ result.kind = "Ok"
    /\ Len(result.out) = 2
    /\ result.rem # buffer
    /\ table_a[result.rem].kind = "Err"

\* C9: one_or_more(p).parse(x) returns the first application's error when
\* that application fails, and does not fail when it succeeds: when it then
\* returns, it returns Ok with at least one output, the outputs and the
\* remainder being those of the successive successful applications of p.
\* For a p that consumes input at each success the call always returns, so
\* it succeeds if and only if the first application succeeds.
OneOrMoreNeedsFirst ==
    op = "one_or_more" =>
        LET first == table_a[buffer]
        IN  /\ first.kind = "Err" => result = first
            /\ first.kind = "Ok" => result.kind # "Err"
            /\ result.kind = "Ok" =>
                  /\ first.kind = "Ok"
                  /\ Len(result.out) >= 1
                  /\ applications(table_a, buffer, result.out, result.rem)
                  /\ table_a[result.rem].kind = "Err"
            /\ advances(table_a) =>
                  (result.kind = "Ok" <=> first.kind = "Ok")

OneOrMoreTwoThenFailure ==
    /\ op = "one_or_more"
    /\ advances(table_a)
    /\ result.kind = "Ok"
    /\ Len(result.out) = 2

\* C10: maybe(p) never fails: when p fails on x, maybe(p).parse(x) is
\* Ok((x, None)), x being the input as it was given; when p succeeds with
\* (r, o), it is Ok((r, Some(o))).
MaybeNeverFails ==
    op = "maybe" =>
        LET r == table_a[buffer]
        IN  /\ result.kind # "Err"
            /\ r.kind = "Err" => result = Ok(buffer, None)
            /\ r.kind = "Ok" => result = Ok(r.rem, Some(r.out))

MaybeOnFailure ==
    /\ op = "maybe"
    /\ table_a[buffer].kind = "Err"
    /\ result = Ok(buffer, None)

-----------------------------------------------------------------------------
(* Properties of the alternative, under SpecAlt *)

\* C8: or(pa, pb) is left-biased: when pa succeeds on x the result is pa's,
\* whatever pb would do on x (pb is not consulted); when pa fails the result
\* is that of pb on the same x, so when both fail the error is pb's.
OrIsLeftBiased ==
    op = "or" =>
        LET ra == table_a[buffer]
            rb == table_b[buffer]
        IN  /\ ra.kind = "Ok" => result = ra
            /\ ra.kind = "Err" => result = rb

OrBothFail ==
    /\ op = "or"
    /\ table_a[buffer].kind = "Err"
    /\ table_b[buffer].kind = "Err"
    /\ result = table_b[buffer]

-----------------------------------------------------------------------------
(* Properties of the sequencing combinators, under SpecSeq *)

\* What a sequence of two parsers gives on x: ra on x, then rb on the
\* remainder of ra; pick chooses the output among the two.
in_sequence(ra, tb, pick) ==
    IF ra.kind # "Ok" THEN ra
    ELSE IF tb[ra.rem].kind # "Ok" THEN tb[ra.rem]
    ELSE Ok(tb[ra.rem].rem,
            CASE pick = "both"   -> <<ra.out, tb[ra.rem].out>>
              [] pick = "first"  -> ra.out
              [] pick = "second" -> tb[ra.rem].out)

\* C11: and, left, right and middle run their parsers in order, each on the
\* remainder of the one before: when pa fails the result is pa's error,
\* whatever the later parsers would do (they are not invoked); when pa
\* succeeds and pb fails on pa's remainder the result is pb's error; on
\* success the remainder is that of the last parser.
SequenceShortCircuits ==
    LET ra == table_a[buffer]
    IN  /\ op = "and"   => result = in_sequence(ra, table_b, "both")
        /\ op = "left"  => result = in_sequence(ra, table_b, "first")
        /\ op = "right" => result = in_sequence(ra, table_b, "second")
        /\ op = "middle" =>
              result = in_sequence(in_sequence(ra, table_b, "second"),
                                   table_c, "first")
        /\ (op \in {"and", "left", "right", "middle"} /\ ra.kind = "Err") =>
              result = ra

SecondFailsOnRemainder ==
    /\ op = "and"
    /\ table_a[buffer].kind = "Ok"
    /\ table_a[buffer].rem # buffer
    /\ table_b[buffer].kind = "Ok"
    /\ table_b[table_a[buffer].rem].kind = "Err"
    /\ result = table_b[table_a[buffer].rem]

-----------------------------------------------------------------------------
(* Properties of the source ranges, under SpecRange *)

\* r is Some of a half-open byte range inside source
range_inside(r, source) ==
    /\ r.kind = "Returned"
    /\ r.range # None
    /\ 0 <= r.range[1].start
    /\ r.range[1].start <= r.range[1].end
    /\ r.range[1].end <= len(source)

\* C12: for a terminal node of the AST that json returned on the buffer,
\* source_range gives Some(r), r a half-open byte range inside the buffer,
\* and the text of the buffer at r is the text the node holds.
TerminalRangeRoundTrip ==
    (/\ op = "json_source_range"
     /\ subject.from = buffer.ptr
     /\ subject.item.tag \in {"Number", "String", "True", "False", "Null"}) =>
        /\ range_inside(result, buffer)
        /\ ~slice_panics(buffer, result.range[1].start, result.range[1].end)
        /\ slice(buffer, result.range[1].start, result.range[1].end).txt
              = subject.item.elem.txt

StringRangeInsideBuffer ==
    /\ op = "json_source_range"
    /\ subject.from = buffer.ptr
    /\ subject.item.tag = "String"
    /\ subject.item.elem.txt # <<>>
    /\ range_inside(result, buffer)
    /\ result.range[1].start > 1

\* the children at the two ends of a composite node: for an Object the key
\* of the first pair and the value of the last
first_child(composite) ==
    IF composite.tag = "Object" THEN composite.elem[1][1]
    ELSE composite.elem[1]

last_child(composite) ==
    IF composite.tag = "Object" THEN composite.elem[Len(composite.elem)][2]
    ELSE composite.elem[Len(composite.elem)]

\* C13: the range of an Object or Array node with children runs from the
\* start of its first child's range to the end of its last child's range,
\* for an Object from the first pair's key to the last pair's value; it is
\* None when the node has no children or when one of the two has no range.
CompositeRangeSpansChildren ==
    (op = "json_source_range" /\ subject.item.tag \in {"Object", "Array"}) =>
        IF subject.item.elem = <<>> THEN result = Returned(None)
        ELSE result =
               to_range(
                 source_range_start(
                   json_source_range(first_child(subject.item), buffer, build)),
                 source_range_end(
                   json_source_range(last_child(subject.item), buffer, build)))

\* C18: source_range of a slice that starts before the buffer or ends past
\* its end returns None, in every build: the subtraction of the addresses
\* neither aborts the call nor yields a range.
ForeignSliceHasNoRange ==
    (/\ op = "str_source_range"
     /\ \/ subject.item.ptr < buffer.ptr
        \/ subject.item.ptr + len(subject.item) > buffer.ptr + len(buffer)) =>
        result = Returned(None)

-----------------------------------------------------------------------------
(* Properties of the string terminal, under SpecTerminal *)

\* The position in txt, from character i on, of the first quote that no
\* escape character precedes; an escape character pairs with the character
\* after it.  Len(txt) + 1 when there is no such quote, 0 when an escape
\* character is the last character met.
RECURSIVE closing(_, _)
closing(txt, i) ==
    IF i > Len(txt) THEN Len(txt) + 1
    ELSE IF txt[i] = "\\"
         THEN IF i = Len(txt) THEN 0 ELSE closing(txt, i + 2)
    ELSE IF txt[i] = "\"" THEN i
    ELSE closing(txt, i + 1)

\* C16: when string succeeds on a buffer that begins with a quote, the
\* String node holds the raw text between that quote and the first quote
\* after it that is not escaped, and the remainder starts right after that
\* closing quote; so too when the content has multi-byte characters.
StringHoldsRawContent ==
    (/\ op = "string"
     /\ result.kind = "Ok") =>
        LET c == closing(buffer.txt, 2)
        IN  /\ c \in 2..Len(buffer.txt)
            /\ result.out.tag = "String"
            /\ result.out.elem.txt = SubSeq(buffer.txt, 2, c - 1)
            /\ result.rem.txt = SubSeq(buffer.txt, c + 1, Len(buffer.txt))

\* C17: string_content fails exactly when the scan meets an escape
\* character that is the last character of the buffer; on every other
\* buffer it succeeds, the output being the text up to the first quote that
\* is not escaped, or up to the end, and the remainder the rest.
StringContentFailsOnlyOnTruncatedEscape ==
    op = "string_content" =>
        LET c == closing(buffer.txt, 1)
        IN  IF c = 0 THEN result.kind = "Err"
            ELSE /\ result.kind = "Ok"
                 /\ result.out.txt = SubSeq(buffer.txt, 1, c - 1)
                 /\ result.rem.txt = SubSeq(buffer.txt, c, Len(buffer.txt))

=============================================================================
